---- MODULE Spec2Model ----
(***************************************************************************)
(* A model of the Ethr server (src/server.go): the control-channel         *)
(* handshake of handleRequest, the test registry it calls into, and the    *)
(* data-plane handlers that credit a Test's result counter.                *)
(*                                                                         *)
(* Every goroutine is a record with a position (pc); one action is one     *)
(* step of one goroutine between two accesses to shared state (registry,   *)
(* Test record, done channel, sockets).                                    *)
(***************************************************************************)
EXTENDS Integers, Naturals, Sequences, FiniteSets, TLC

\* ------------------------------------------------------------------ bounds
\* Control connections the accept loop of runServer hands to handleRequest.
MaxConns == 2
\* Connections accepted on the Cps port.
MaxCps == 1
\* Datagrams received on the Pps port.
MaxDgrams == 1
\* Connections accepted on the TCP bandwidth port.
MaxBw == 2
\* Full reads completed on bandwidth connections, all connections together.
MaxReads == 10
\* Requests served by handleHttpRequest.
MaxHttp == 2
\* Connections accepted on the TCP latency port.
MaxLat == 1
\* Round-trip durations are 1..MaxDur nanoseconds.
MaxDur == 2
\* Batches of up to MaxExplicit samples are enumerated sample by sample.
MaxExplicit == 3
\* A round-trip count for which rttCount * 99 leaves 32 bits.
BigRtt == 45000001
\* runtime.NumCPU() of the host: the Pps workers spawned per socket.
NumCPU == 2

\* --------------------------------------------------------------- constants
Conns == 1..MaxConns
Nil == 0

\* Control message types (EthrSyn, EthrAck, EthrFin, EthrBgn; EthrInv is what
\* recvSessionMsg yields on a transport or decoding error).
EthrSyn == "Syn"
EthrAck == "Ack"
EthrFin == "Fin"
EthrBgn == "Bgn"
EthrInv == "Inv"
MsgTypes == {EthrSyn, EthrAck, EthrFin, EthrBgn, EthrInv}

Tcp == "Tcp"
Udp == "Udp"
Http == "Http"
Bandwidth == "Bandwidth"
Cps == "Cps"
Pps == "Pps"
Latency == "Latency"

VARIABLES
    tests,      \* every ethrTest record ever created, by id (its pointer)
    registry,   \* ids of the Test records currently registered
    ctrl,       \* handleRequest goroutines, one per control connection
    socks,      \* UDP sockets bound by runServerPpsTest
    pps,        \* runPPSHandler goroutines
    cps,        \* runCPSHandler goroutines
    udp,        \* datagrams read from the Pps socket: how many, the last sender
    bw,         \* runBandwidthHandler goroutines
    http,       \* handleHttpRequest calls
    lat,        \* runLatencyHandler goroutines
    last        \* the latency batch completed last and what the ui was given

vars == <<tests, registry, ctrl, socks, pps, cps, udp, bw, http, lat, last>>

\* ------------------------------------------------------------ test registry
TestIds == DOMAIN tests

KeyOf(t) == <<tests[t].addr, tests[t].proto, tests[t].type>>

\* lookup-by-key: the registered Test for the key, or nil
getTest(a, proto, type) ==
    IF \E t \in registry : KeyOf(t) = <<a, proto, type>>
    THEN CHOOSE t \in registry : KeyOf(t) = <<a, proto, type>>
    ELSE Nil

\* create-if-absent: the record newTest builds for handler h
NewTestRecord(h) ==
    [addr       |-> ctrl[h].addr,
     proto      |-> ctrl[h].param.proto,
     type       |-> ctrl[h].param.type,
     bufferSize |-> ctrl[h].param.bufferSize,
     rttCount   |-> ctrl[h].param.rttCount,
     ctrlConn   |-> h,
     done       |-> FALSE,
     isActive   |-> FALSE,
     data       |-> 0]

\* Variant of AtomicAddUint64: the new value is stored over the old one (a
\* swap where an add is meant).
AtomicAddUint64_Swap(old, delta) == delta

\* atomic.AddUint64 on a counter holding old: one indivisible step. (The
\* counter is a uint64; the counters of the model stay far below 2^64.)
AtomicAddUint64(old, delta) == old + delta

SetTest(t, field, value) == [tests EXCEPT ![t] = [@ EXCEPT ![field] = value]]

\* A panic in any goroutine ends the process: nothing runs after it.
Running == \A l \in DOMAIN lat : lat[l].pc # "panic"

\* ------------------------------------------------------- handler records
\* EthrTestParam, and its zero value before a Syn is received
TestParam(proto, type, bufferSize, rttCount) ==
    [proto |-> proto, type |-> type, bufferSize |-> bufferSize, rttCount |-> rttCount]

NoParam == TestParam("", "", 0, 0)

IdleCtrl ==
    [pc |-> "idle", addr |-> Nil, param |-> NoParam, test |-> Nil,
     sent |-> <<>>, nrecv |-> 0, connOpen |-> FALSE, trace |-> <<>>]

DataPlaneUnchanged == UNCHANGED <<socks, pps, cps, udp, bw, http, lat, last>>

\* --------------------------------------------------------- handleRequest
\* runServer: l.Accept(); go handleRequest(conn)
Accept(h, a) ==
    /\ Running
    /\ ctrl[h].pc = "idle"
    /\ \A g \in Conns : g < h => ctrl[g].pc # "idle"
    /\ ctrl' = [ctrl EXCEPT ![h] = [@ EXCEPT !.pc = "recvSyn", !.addr = a,
                                             !.connOpen = TRUE]]
    /\ UNCHANGED <<tests, registry>>
    /\ DataPlaneUnchanged

\* ethrMsg := recvSessionMsg(dec); if ethrMsg.Type != EthrSyn { return }
RecvSyn(h, m) ==
    /\ Running
    /\ ctrl[h].pc = "recvSyn"
    /\ IF m.type = EthrSyn
       THEN ctrl' = [ctrl EXCEPT ![h] = [@ EXCEPT !.pc = "newTest",
                          !.param = m.param, !.nrecv = @ + 1,
                          !.trace = Append(@, "recvSyn")]]
       ELSE ctrl' = [ctrl EXCEPT ![h] = [@ EXCEPT !.pc = "returned",
                          !.nrecv = @ + 1, !.connOpen = FALSE]]
    /\ UNCHANGED <<tests, registry>>
    /\ DataPlaneUnchanged

\* test, err := newTest(server, conn, testParam, enc, dec)
NewTest(h) ==
    /\ Running
    /\ ctrl[h].pc = "newTest"
    /\ IF getTest(ctrl[h].addr, ctrl[h].param.proto, ctrl[h].param.type) # Nil
       THEN /\ ctrl' = [ctrl EXCEPT ![h] = [@ EXCEPT !.pc = "sendFin",
                          !.trace = Append(@, "duplicate")]]
            /\ UNCHANGED <<tests, registry>>
       ELSE /\ tests' = Append(tests, NewTestRecord(h))
            /\ registry' = registry \cup {Len(tests) + 1}
            /\ ctrl' = [ctrl EXCEPT ![h] = [@ EXCEPT
                          !.pc = IF ctrl[h].param.type = Pps THEN "pps" ELSE "sendAck",
                          !.test = Len(tests) + 1,
                          !.trace = Append(@, "registered")]]
    /\ DataPlaneUnchanged

\* Variant of SendFin: the rejection path answers with an Ack.
SendFin_Ack(h) ==
    /\ Running
    /\ ctrl[h].pc = "sendFin"
    /\ ctrl' = [ctrl EXCEPT ![h] = [@ EXCEPT !.pc = "returned",
                      !.sent = Append(@, EthrAck), !.connOpen = FALSE]]
    /\ UNCHANGED <<tests, registry>>
    /\ DataPlaneUnchanged

\* ethrMsg = createFinMsg(msg); sendSessionMsg(enc, ethrMsg); return
SendFin(h) ==
    /\ Running
    /\ ctrl[h].pc = "sendFin"
    /\ ctrl' = [ctrl EXCEPT ![h] = [@ EXCEPT !.pc = "returned",
                      !.sent = Append(@, EthrFin), !.connOpen = FALSE]]
    /\ UNCHANGED <<tests, registry>>
    /\ DataPlaneUnchanged

\* cleanupFunc, first statement: test.ctrlConn.Close(); the handler goes on to
\* close(test.done)
CleanupBegin(c) == [c EXCEPT !.pc = "closeDone", !.connOpen = FALSE]

\* err = runServerPpsTest(test): net.ListenUDP on the one Pps port fails while
\* a socket is bound to it (listenOk = FALSE stands for any other failure);
\* on success the goroutine that owns the socket starts NumCPU workers on it.
PortFree == \A s \in DOMAIN socks : ~socks[s].open

NewWorkers(s) == [i \in 1..NumCPU |-> [sock |-> s, pc |-> "recv", target |-> Nil]]

\* Variant of runServerPpsTest's call site: the error is dropped and the
\* handshake goes on to the Ack.
runServerPpsTest_IgnoreErr(h, listenOk) ==
    /\ ctrl[h].pc = "pps"
    /\ IF listenOk /\ PortFree
       THEN /\ socks' = Append(socks, [test |-> ctrl[h].test, open |-> TRUE])
            /\ pps' = pps \o NewWorkers(Len(socks) + 1)
            /\ ctrl' = [ctrl EXCEPT ![h] = [@ EXCEPT !.pc = "sendAck",
                          !.trace = Append(@, "ppsSetup")]]
       ELSE /\ ctrl' = [ctrl EXCEPT ![h] = [@ EXCEPT !.pc = "sendAck"]]
            /\ UNCHANGED <<socks, pps>>
    /\ UNCHANGED <<tests, registry, cps, udp, bw, http, lat, last>>

runServerPpsTest(h, listenOk) ==
    /\ ctrl[h].pc = "pps"
    /\ IF listenOk /\ PortFree
       THEN /\ socks' = Append(socks, [test |-> ctrl[h].test, open |-> TRUE])
            /\ pps' = pps \o NewWorkers(Len(socks) + 1)
            /\ ctrl' = [ctrl EXCEPT ![h] = [@ EXCEPT !.pc = "sendAck",
                          !.trace = Append(@, "ppsSetup")]]
       ELSE /\ ctrl' = [ctrl EXCEPT ![h] = CleanupBegin(@)]
            /\ UNCHANGED <<socks, pps>>
    /\ UNCHANGED <<tests, registry, cps, udp, bw, http, lat, last>>

\* ethrMsg = createAckMsg(); err = sendSessionMsg(enc, ethrMsg)
SendAck(h, ok) ==
    /\ Running
    /\ ctrl[h].pc = "sendAck"
    /\ IF ok
       THEN ctrl' = [ctrl EXCEPT ![h] = [@ EXCEPT !.pc = "recvAck",
                          !.sent = Append(@, EthrAck),
                          !.trace = Append(@, "sendAck")]]
       ELSE ctrl' = [ctrl EXCEPT ![h] = CleanupBegin(@)]
    /\ UNCHANGED <<tests, registry>>
    /\ DataPlaneUnchanged

\* Variant of RecvAck: a reply that is not Ack returns without cleanupFunc().
RecvAck_NoCleanup(h, m) ==
    /\ Running
    /\ ctrl[h].pc = "recvAck"
    /\ IF m = EthrAck
       THEN /\ ctrl' = [ctrl EXCEPT ![h] = [@ EXCEPT !.pc = "active",
                          !.nrecv = @ + 1, !.trace = Append(@, "recvAck")]]
            /\ tests' = SetTest(ctrl[h].test, "isActive", TRUE)
       ELSE /\ ctrl' = [ctrl EXCEPT ![h] = [@ EXCEPT !.pc = "returned",
                          !.connOpen = FALSE,
                          !.nrecv = @ + 1, !.trace = Append(@, "recvOther")]]
            /\ UNCHANGED tests
    /\ UNCHANGED registry
    /\ DataPlaneUnchanged

\* Variant of RecvAck: only a transport error fails the handshake; any message
\* the client sends marks the Test active.
RecvAck_AnyReply(h, m) ==
    /\ Running
    /\ ctrl[h].pc = "recvAck"
    /\ IF m # EthrInv
       THEN /\ ctrl' = [ctrl EXCEPT ![h] = [@ EXCEPT !.pc = "active",
                          !.nrecv = @ + 1,
                          !.trace = Append(@, IF m = EthrAck THEN "recvAck"
                                                             ELSE "recvOther")]]
            /\ tests' = SetTest(ctrl[h].test, "isActive", TRUE)
       ELSE /\ ctrl' = [ctrl EXCEPT ![h] = [CleanupBegin(@) EXCEPT
                          !.nrecv = @ + 1, !.trace = Append(@, "recvOther")]]
            /\ UNCHANGED tests
    /\ UNCHANGED registry
    /\ DataPlaneUnchanged

\* ethrMsg = recvSessionMsg(dec); if ethrMsg.Type != EthrAck { cleanupFunc() }
\* else test.isActive = true
RecvAck(h, m) ==
    /\ Running
    /\ ctrl[h].pc = "recvAck"
    /\ IF m = EthrAck
       THEN /\ ctrl' = [ctrl EXCEPT ![h] = [@ EXCEPT !.pc = "active",
                          !.nrecv = @ + 1, !.trace = Append(@, "recvAck")]]
            /\ tests' = SetTest(ctrl[h].test, "isActive", TRUE)
       ELSE /\ ctrl' = [ctrl EXCEPT ![h] = [CleanupBegin(@) EXCEPT
                          !.nrecv = @ + 1, !.trace = Append(@, "recvOther")]]
            /\ UNCHANGED tests
    /\ UNCHANGED registry
    /\ DataPlaneUnchanged

\* test.ctrlConn.Read(b[0:]) returns (a byte, EOF or an error);
\* test.isActive = false; cleanupFunc()
ReadByte(h) ==
    /\ Running
    /\ ctrl[h].pc = "active"
    /\ tests' = SetTest(ctrl[h].test, "isActive", FALSE)
    /\ ctrl' = [ctrl EXCEPT ![h] = CleanupBegin(@)]
    /\ UNCHANGED registry
    /\ DataPlaneUnchanged

\* Variant of CloseDone: cleanupFunc goes from Close() to deleteTest(test)
\* without close(test.done).
CloseDone_Skip(h) ==
    /\ Running
    /\ ctrl[h].pc = "closeDone"
    /\ ctrl' = [ctrl EXCEPT ![h] = [@ EXCEPT !.pc = "deleteTest"]]
    /\ UNCHANGED <<tests, registry>>
    /\ DataPlaneUnchanged

\* cleanupFunc, second statement: close(test.done)
CloseDone(h) ==
    /\ Running
    /\ ctrl[h].pc = "closeDone"
    /\ tests' = SetTest(ctrl[h].test, "done", TRUE)
    /\ ctrl' = [ctrl EXCEPT ![h] = [@ EXCEPT !.pc = "deleteTest"]]
    /\ UNCHANGED registry
    /\ DataPlaneUnchanged

\* cleanupFunc, third statement: deleteTest(test); then handleRequest returns
DeleteTest(h) ==
    /\ Running
    /\ ctrl[h].pc = "deleteTest"
    /\ registry' = registry \ {ctrl[h].test}
    /\ ctrl' = [ctrl EXCEPT ![h] = [@ EXCEPT !.pc = "returned"]]
    /\ UNCHANGED tests
    /\ DataPlaneUnchanged

\* The steps of one session of handleRequest on the connections conns; addrs
\* are the addresses clients connect from and syns the Syn messages they send.
Session(conns, addrs, syns) ==
    \/ \E h \in conns, a \in addrs : Accept(h, a)
    \/ \E h \in conns, m \in syns \cup {[type |-> t] : t \in MsgTypes \ {EthrSyn}} :
          RecvSyn(h, m)
    \/ \E h \in conns : NewTest(h)
    \/ \E h \in conns, ok \in BOOLEAN : SendAck(h, ok)
    \/ \E h \in conns, m \in MsgTypes : RecvAck(h, m)
    \/ \E h \in conns : ReadByte(h)
    \/ \E h \in conns : CloseDone(h)
    \/ \E h \in conns : DeleteTest(h)

\* Every step of handleRequest, the rejection of a duplicate included.
Control(conns, addrs, syns) ==
    \/ Session(conns, addrs, syns)
    \/ \E h \in conns : SendFin(h)

\* ------------------------------------------------------ UDP Pps data plane
\* runServerPpsTest's goroutine: <-test.done; defer l.Close()
PpsOwnerExit(s) ==
    /\ socks[s].open
    /\ tests[socks[s].test].done
    /\ socks' = [socks EXCEPT ![s] = [@ EXCEPT !.open = FALSE]]
    /\ UNCHANGED <<tests, registry, ctrl, pps, cps, udp, bw, http, lat, last>>

\* The workers of one socket that are blocked in conn.ReadFromUDP are
\* interchangeable: the one of least index stands for whichever of them a
\* datagram, or the error of the closed socket, wakes.
Wakes(w) ==
    /\ pps[w].pc = "recv"
    /\ \A v \in DOMAIN pps : v < w /\ pps[v].sock = pps[w].sock => pps[v].pc # "recv"

\* Variant of PpsRecv: the worker credits the Test it was started for (the
\* outer test the loop's own variable shadows) without a lookup by sender.
PpsRecv_NoLookup(w, a) ==
    /\ Wakes(w)
    /\ socks[pps[w].sock].open
    /\ udp.n < MaxDgrams
    /\ udp' = [n |-> udp.n + 1, from |-> a]
    /\ pps' = [pps EXCEPT ![w] = [@ EXCEPT !.target = socks[pps[w].sock].test,
                                            !.pc = "add"]]
    /\ UNCHANGED <<tests, registry, ctrl, socks, cps, bw, http, lat, last>>

\* runPPSHandler: conn.ReadFromUDP returns a datagram from a; then
\* test := getTest(server, Udp, Pps); if test == nil { continue }
PpsRecv(w, a) ==
    /\ Wakes(w)
    /\ socks[pps[w].sock].open
    /\ udp.n < MaxDgrams
    /\ udp' = [n |-> udp.n + 1, from |-> a]
    /\ LET t == getTest(a, Udp, Pps) IN
         pps' = [pps EXCEPT ![w] = [@ EXCEPT !.target = t,
                      !.pc = IF t = Nil THEN "recv" ELSE "add"]]
    /\ UNCHANGED <<tests, registry, ctrl, socks, cps, bw, http, lat, last>>

\* runPPSHandler: atomic.AddUint64(&test.testResult.data, 1); the iteration
\* ends and with it the loop's test variable
PpsAdd(w) ==
    /\ pps[w].pc = "add"
    /\ tests' = SetTest(pps[w].target, "data",
                        AtomicAddUint64(tests[pps[w].target].data, 1))
    /\ pps' = [pps EXCEPT ![w] = [@ EXCEPT !.pc = "recv", !.target = Nil]]
    /\ UNCHANGED <<registry, ctrl, socks, cps, udp, bw, http, lat, last>>

\* Variant of PpsRecvErr: the loop has no condition on err, the worker
\* receives again after the error.
PpsRecvErr_Retry(w) ==
    /\ Wakes(w)
    /\ ~socks[pps[w].sock].open
    /\ UNCHANGED vars

\* runPPSHandler: conn.ReadFromUDP fails on the closed socket; err != nil
\* ends the loop
PpsRecvErr(w) ==
    /\ Wakes(w)
    /\ ~socks[pps[w].sock].open
    /\ pps' = [pps EXCEPT ![w] = [@ EXCEPT !.pc = "exit"]]
    /\ UNCHANGED <<tests, registry, ctrl, socks, cps, udp, bw, http, lat, last>>

\* The Pps setup of the handlers conns and the end of what it started.
PpsSetup(conns) ==
    \/ \E h \in conns, ok \in BOOLEAN : runServerPpsTest(h, ok)
    \/ \E s \in DOMAIN socks : PpsOwnerExit(s)
    \/ \E w \in DOMAIN pps : PpsRecvErr(w)

\* The datagrams the workers receive, sent from addrs.
PpsPlane(addrs) ==
    \/ \E w \in DOMAIN pps, a \in addrs : PpsRecv(w, a)
    \/ \E w \in DOMAIN pps : PpsAdd(w)

\* ------------------------------------------------------ TCP Cps data plane
\* runServerCpsTest: l.Accept(); go runCPSHandler(conn);
\* runCPSHandler: test := getTest(server, Tcp, Cps)
CpsAccept(a) ==
    /\ Len(cps) < MaxCps
    /\ LET t == getTest(a, Tcp, Cps) IN
         cps' = Append(cps, [addr |-> a, target |-> t,
                             pc |-> IF t = Nil THEN "closed" ELSE "add"])
    /\ UNCHANGED <<tests, registry, ctrl, socks, pps, udp, bw, http, lat, last>>

\* runCPSHandler: atomic.AddUint64(&test.testResult.data, 1); conn.Close();
\* the handler returns and with it its test variable
CpsAdd(i) ==
    /\ cps[i].pc = "add"
    /\ tests' = SetTest(cps[i].target, "data",
                        AtomicAddUint64(tests[cps[i].target].data, 1))
    /\ cps' = [cps EXCEPT ![i] = [@ EXCEPT !.pc = "closed", !.target = Nil]]
    /\ UNCHANGED <<registry, ctrl, socks, pps, udp, bw, http, lat, last>>

CpsPlane(addrs) ==
    \/ \E a \in addrs : CpsAccept(a)
    \/ \E i \in DOMAIN cps : CpsAdd(i)

\* ------------------------------------------------ TCP bandwidth data plane
RECURSIVE SumReads(_)
SumReads(i) == IF i = 0 THEN 0 ELSE bw[i].reads + SumReads(i - 1)

\* runServerBandwidthTest: l.Accept(); test := getTest(server, Tcp, Bandwidth);
\* if test == nil { conn.Close(); continue }; go runBandwidthHandler(conn, test)
BwAccept(a) ==
    /\ Len(bw) < MaxBw
    /\ LET t == getTest(a, Tcp, Bandwidth) IN
         bw' = Append(bw, [addr |-> a, test |-> t, reads |-> 0, failed |-> FALSE,
                           pc |-> IF t = Nil THEN "closed" ELSE "select"])
    /\ UNCHANGED <<tests, registry, ctrl, socks, pps, cps, udp, http, lat, last>>

\* Variant of BwSelect: the select has no case for test.done, every
\* iteration reads.
BwSelect_NoDone(b) ==
    /\ bw[b].pc = "select"
    /\ bw' = [bw EXCEPT ![b] = [@ EXCEPT !.pc = "read"]]
    /\ UNCHANGED <<tests, registry, ctrl, socks, pps, cps, udp, http, lat, last>>

\* runBandwidthHandler: select { case <-test.done: break ExitForLoop;
\* default: ... }; on leaving the loop, defer closeConn(conn)
BwSelect(b) ==
    /\ bw[b].pc = "select"
    /\ bw' = [bw EXCEPT ![b] = [@ EXCEPT
                 !.pc = IF tests[bw[b].test].done THEN "closed" ELSE "read"]]
    /\ UNCHANGED <<tests, registry, ctrl, socks, pps, cps, udp, http, lat, last>>

\* Variant of BwRead: the error of io.ReadFull is not checked, a failed read is
\* credited like a completed one.
BwRead_CreditOnError(b, ok) ==
    /\ bw[b].pc = "read"
    /\ ok => ~bw[b].failed /\ SumReads(Len(bw)) < MaxReads
    /\ tests' = SetTest(bw[b].test, "data",
            AtomicAddUint64(tests[bw[b].test].data, tests[bw[b].test].bufferSize))
    /\ bw' = [bw EXCEPT ![b] = [@ EXCEPT !.pc = "select",
                 !.reads = IF ok THEN @ + 1 ELSE @,
                 !.failed = IF ok THEN @ ELSE TRUE]]
    /\ UNCHANGED <<registry, ctrl, socks, pps, cps, udp, http, lat, last>>

\* Variant of BwRead: the handler looks the Test up by the connection's key
\* for every credit, like the Pps workers do.
BwRead_LookupByKey(b, ok) ==
    /\ bw[b].pc = "read"
    /\ IF ok
       THEN /\ ~bw[b].failed
            /\ SumReads(Len(bw)) < MaxReads
            /\ LET t == getTest(bw[b].addr, Tcp, Bandwidth) IN
                 IF t = Nil THEN UNCHANGED tests
                 ELSE tests' = SetTest(t, "data",
                         AtomicAddUint64(tests[t].data, tests[t].bufferSize))
            /\ bw' = [bw EXCEPT ![b] = [@ EXCEPT !.pc = "select", !.reads = @ + 1]]
       ELSE /\ bw' = [bw EXCEPT ![b] = [@ EXCEPT !.pc = "select", !.failed = TRUE]]
            /\ UNCHANGED tests
    /\ UNCHANGED <<registry, ctrl, socks, pps, cps, udp, http, lat, last>>

\* runBandwidthHandler, default case: _, err := io.ReadFull(conn, bytes);
\* if err != nil { continue }; atomic.AddUint64(&test.testResult.data, uint64(size)).
\* A connection that failed once (EOF, reset) fails every later read.
BwRead(b, ok) ==
    /\ bw[b].pc = "read"
    /\ IF ok
       THEN /\ ~bw[b].failed
            /\ SumReads(Len(bw)) < MaxReads
            /\ tests' = SetTest(bw[b].test, "data",
                    AtomicAddUint64(tests[bw[b].test].data, tests[bw[b].test].bufferSize))
            /\ bw' = [bw EXCEPT ![b] = [@ EXCEPT !.pc = "select", !.reads = @ + 1]]
       ELSE /\ bw' = [bw EXCEPT ![b] = [@ EXCEPT !.pc = "select", !.failed = TRUE]]
            /\ UNCHANGED tests
    /\ UNCHANGED <<registry, ctrl, socks, pps, cps, udp, http, lat, last>>

BwPlane(addrs) ==
    \/ \E a \in addrs : BwAccept(a)
    \/ \E b \in DOMAIN bw : BwSelect(b)
    \/ \E b \in DOMAIN bw, ok \in BOOLEAN : BwRead(b, ok)

\* ----------------------------------------------- HTTP bandwidth data plane
StatusOK == 200
StatusBadRequest == 400
StatusUnauthorized == 401
StatusMethodNotAllowed == 405

\* http.ResponseWriter: the status line goes out with the first WriteHeader
\* or Write; a later WriteHeader changes nothing.
NewResponse == [status |-> 0, body |-> <<>>]

WriteHeader(w, code) == IF w.status = 0 THEN [w EXCEPT !.status = code] ELSE w

Write(w, b) == [WriteHeader(w, StatusOK) EXCEPT !.body = Append(@, b)]

\* Variant of HttpError: the error replaces whatever the handler has written,
\* status line included.
HttpError_Replace(w, msg, code) == [status |-> code, body |-> <<msg>>]

\* http.Error(w, msg, code): w.WriteHeader(code); fmt.Fprintln(w, msg)
HttpError(w, msg, code) == Write(WriteHeader(w, code), msg)

Methods == {"GET", "PUT", "POST", "DELETE"}

\* r.ContentLength: -1 when the length is unknown
ContentLengths == {-1, 0, 500}

\* Variant of HttpRequest: the declared length is credited without the check
\* that it is positive.
HttpRequest_NoLengthCheck(a, method, cl, bodyOk) ==
    /\ Len(http) < MaxHttp
    /\ LET t == getTest(a, Http, Bandwidth)
           req == [addr |-> a, method |-> method, contentLength |-> cl,
                   bodyOk |-> bodyOk, registered |-> t # Nil, target |-> Nil,
                   w |-> NewResponse, pc |-> "done"]
       IN  http' = Append(http,
             IF ~bodyOk
             THEN [req EXCEPT !.w = HttpError(@, "read error", StatusBadRequest)]
             ELSE IF method \notin {"GET", "PUT", "POST"}
             THEN [req EXCEPT !.w = HttpError(@, "Only GET, PUT and POST are supported.",
                                              StatusMethodNotAllowed)]
             ELSE IF t = Nil
             THEN [req EXCEPT !.w = HttpError(Write(@, "ok"), "Unauthorized request.",
                                              StatusUnauthorized)]
             ELSE [req EXCEPT !.w = Write(@, "ok"), !.target = t, !.pc = "add"])
    /\ UNCHANGED <<tests, registry, ctrl, socks, pps, cps, udp, bw, lat, last>>

\* handleHttpRequest up to the lookup: ioutil.ReadAll(r.Body), the switch on
\* r.Method, test := getTest(server, Http, Bandwidth). registered records
\* whether a Test was registered for the caller when the request was served.
HttpRequest(a, method, cl, bodyOk) ==
    /\ Len(http) < MaxHttp
    /\ LET t == getTest(a, Http, Bandwidth)
           req == [addr |-> a, method |-> method, contentLength |-> cl,
                   bodyOk |-> bodyOk, registered |-> t # Nil, target |-> Nil,
                   w |-> NewResponse, pc |-> "done"]
       IN  http' = Append(http,
             IF ~bodyOk
             THEN [req EXCEPT !.w = HttpError(@, "read error", StatusBadRequest)]
             ELSE IF method \notin {"GET", "PUT", "POST"}
             THEN [req EXCEPT !.w = HttpError(@, "Only GET, PUT and POST are supported.",
                                              StatusMethodNotAllowed)]
             ELSE IF t = Nil
             THEN [req EXCEPT !.w = HttpError(Write(@, "ok"), "Unauthorized request.",
                                              StatusUnauthorized)]
             ELSE [req EXCEPT !.w = Write(@, "ok"), !.target = t,
                              !.pc = IF cl > 0 THEN "add" ELSE "done"])
    /\ UNCHANGED <<tests, registry, ctrl, socks, pps, cps, udp, bw, lat, last>>

\* handleHttpRequest: atomic.AddUint64(&test.testResult.data, uint64(r.ContentLength))
HttpAdd(i) ==
    /\ http[i].pc = "add"
    /\ tests' = SetTest(http[i].target, "data",
                        AtomicAddUint64(tests[http[i].target].data, http[i].contentLength))
    /\ http' = [http EXCEPT ![i] = [@ EXCEPT !.pc = "done"]]
    /\ UNCHANGED <<registry, ctrl, socks, pps, cps, udp, bw, lat, last>>

HttpPlane(addrs) ==
    \/ \E a \in addrs, method \in Methods, cl \in ContentLengths, bodyOk \in BOOLEAN :
          HttpRequest(a, method, cl, bodyOk)
    \/ \E i \in DOMAIN http : HttpAdd(i)

\* --------------------------------------------------- TCP latency data plane
\* uint32 arithmetic. A uint32 is kept as two 16-bit limbs <<hi, lo>>, so that
\* products and differences wrap at 2^32 as the Go operators do.
Limb == 65536

U32(n) == <<(n \div Limb) % Limb, n % Limb>>

\* uint32 * small constant, modulo 2^32
U32Mul(u, k) == <<(u[1] * k + (u[2] * k) \div Limb) % Limb, (u[2] * k) % Limb>>

\* uint32 / small constant
U32Div(u, d) ==
    LET rest == (u[1] % d) * Limb + u[2]
    IN  <<(u[1] \div d) + (rest \div d) \div Limb, (rest \div d) % Limb>>

\* uint32 - 1, modulo 2^32: 0 - 1 is 2^32 - 1
U32Dec(u) == IF u[2] > 0 THEN <<u[1], u[2] - 1>>
             ELSE IF u[1] > 0 THEN <<u[1] - 1, Limb - 1>>
             ELSE <<Limb - 1, Limb - 1>>

U32Less(u, v) == u[1] < v[1] \/ (u[1] = v[1] /\ u[2] < v[2])

\* the value of a uint32 below 2^31
U32Int(u) == u[1] * Limb + u[2]

\* A batch of samples is a sequence of runs [val, cnt]: cnt consecutive
\* samples of val nanoseconds. latencyNumbers[i], 0-based:
RECURSIVE At(_, _)
At(runs, i) == IF i < Head(runs).cnt THEN Head(runs).val
               ELSE At(Tail(runs), i - Head(runs).cnt)

RECURSIVE Count32(_)
Count32(runs) == IF runs = <<>> THEN 0 ELSE Head(runs).cnt + Count32(Tail(runs))

\* sum := int64(0); for _, d := range latencyNumbers { sum += d.Nanoseconds() }
RECURSIVE Sum(_)
Sum(runs) == IF runs = <<>> THEN 0
             ELSE Head(runs).val * Head(runs).cnt + Sum(Tail(runs))

\* sort.SliceStable(latencyNumbers, less): a stable insertion of each run
\* behind the runs that are not greater
RECURSIVE Insert(_, _)
Insert(sorted, r) ==
    IF sorted = <<>> THEN <<r>>
    ELSE IF r.val < Head(sorted).val THEN <<r>> \o sorted
    ELSE <<Head(sorted)>> \o Insert(Tail(sorted), r)

RECURSIVE SliceStable(_)
SliceStable(runs) ==
    IF runs = <<>> THEN <<>>
    ELSE Insert(SliceStable(SubSeq(runs, 1, Len(runs) - 1)), runs[Len(runs)])

\* elapsed := time.Duration(sum / int64(rttCount))
Mean(runs, rttCount) == Sum(runs) \div rttCount

\* Variant of RttCountFixed: no special case for rttCount = 1.
RttCountFixed_Plain(rttCount) == rttCount

\* rttCountFixed := rttCount; if rttCountFixed == 1 { rttCountFixed = 2 }
RttCountFixed(rttCount) == IF rttCount = 1 THEN 2 ELSE rttCount

\* Variant of PercentileIndex: the quotient is rounded up before the
\* subtraction of 1.
PercentileIndex_RoundUp(rttCount, p) ==
    LET prod == U32Mul(U32(RttCountFixed(rttCount)), p)
        rest == ((prod[1] % 100) * (Limb % 100) + (prod[2] % 100)) % 100
    IN  IF rest = 0 THEN U32Dec(U32Div(prod, 100)) ELSE U32Div(prod, 100)

\* the index ((rttCountFixed*p)/100)-1, in uint32
PercentileIndex(rttCount, p) ==
    U32Dec(U32Div(U32Mul(U32(RttCountFixed(rttCount)), p), 100))

\* the index uint64(((float64(rttCountFixed)*99.9)/100)-1) for per = 1000 and
\* uint64(((float64(rttCountFixed)*99.99)/100)-1) for per = 10000: the float64
\* product is n - n/per, truncated after the subtraction of 1 (n >= 2)
FloatIndex(rttCount, per) ==
    LET n == RttCountFixed(rttCount)
    IN  U32(n - ((n + per - 1) \div per) - 1)

\* the indices of min, max, p50, p90, p95, p99, p99.9, p99.99 in the order
\* the handler reads them
Indices(rttCount) ==
    <<U32(0), U32Dec(U32(rttCount)),
      PercentileIndex(rttCount, 50), PercentileIndex(rttCount, 90),
      PercentileIndex(rttCount, 95), PercentileIndex(rttCount, 99),
      FloatIndex(rttCount, 1000), FloatIndex(rttCount, 10000)>>

\* an index expression panics unless index < len(latencyNumbers)
InRange(idx, rttCount) == U32Less(idx, U32(rttCount))

\* Variant of AtomicSwapUint64: the new value is added to the old one.
AtomicSwapUint64_Add(old, new) == old + new

\* atomic.SwapUint64 on a counter holding old
AtomicSwapUint64(old, new) == new

\* what ui.emitLatencyResults is called with
Results(runs, rttCount) ==
    LET sorted == SliceStable(runs)
        idx == Indices(rttCount)
        v(k) == At(sorted, U32Int(idx[k]))
    IN  [avg |-> Mean(runs, rttCount), min |-> v(1), max |-> v(2),
         p50 |-> v(3), p90 |-> v(4), p95 |-> v(5), p99 |-> v(6),
         p999 |-> v(7), p9999 |-> v(8)]

Durations == 1..MaxDur

RttCounts == (0..MaxExplicit) \cup {BigRtt}

\* The batches of rttCount samples the model draws: every sample sequence
\* for a small rttCount, two runs for a large one.
Batches(rttCount) ==
    IF rttCount <= MaxExplicit
    THEN {[i \in 1..rttCount |-> [val |-> f[i], cnt |-> 1]] :
             f \in [1..rttCount -> Durations]}
    ELSE {<<[val |-> v1, cnt |-> c], [val |-> v2, cnt |-> rttCount - c]>> :
             v1 \in Durations, v2 \in Durations,
             c \in {1, rttCount \div 2, rttCount - 1}}

\* One iteration's computation for a batch: the mean that is swapped into the
\* counter, whether every index expression is in range, and the results
\* emitted if so.
NoResults ==
    [avg |-> 0, min |-> 0, max |-> 0, p50 |-> 0, p90 |-> 0, p95 |-> 0,
     p99 |-> 0, p999 |-> 0, p9999 |-> 0]

Outcome(runs, rttCount) ==
    LET ok == \A k \in 1..8 : InRange(Indices(rttCount)[k], rttCount)
    IN  [mean |-> Mean(runs, rttCount), ok |-> ok,
         out |-> IF ok THEN Results(runs, rttCount) ELSE NoResults]

\* Outcome for every batch of the model, computed once.
Outcomes ==
    [n \in RttCounts \ {0} |-> [runs \in Batches(n) |-> Outcome(runs, n)]]

\* No batch has been completed.
NoBatch ==
    [by |-> Nil, batch |-> <<>>, before |-> 0, emitted |-> FALSE, out |-> NoResults]

\* runServerLatencyTest: l.Accept(); test := getTest(server, Tcp, Latency);
\* if test == nil { conn.Close(); continue }; go runLatencyHandler(conn, test);
\* the handler reads rttCount := test.testParam.RttCount once
LatAccept(a) ==
    /\ Running
    /\ Len(lat) < MaxLat
    /\ LET t == getTest(a, Tcp, Latency) IN
         lat' = Append(lat, [addr |-> a, test |-> t,
                             rttCount |-> IF t = Nil THEN 0 ELSE tests[t].rttCount,
                             pc |-> IF t = Nil THEN "closed" ELSE "loop"])
    /\ UNCHANGED <<tests, registry, ctrl, socks, pps, cps, udp, bw, http, last>>

\* runLatencyHandler: a read or write on the connection fails; return
LatIoError(l) ==
    /\ Running
    /\ lat[l].pc = "loop"
    /\ lat' = [lat EXCEPT ![l] = [@ EXCEPT !.pc = "closed"]]
    /\ UNCHANGED <<tests, registry, ctrl, socks, pps, cps, udp, bw, http, last>>

\* runLatencyHandler, one iteration of the outer loop with rttCount round
\* trips measured as runs: the mean, the sort, the swap of the counter, the
\* eight index expressions, ui.emitLatencyResults. sum / int64(rttCount)
\* panics for rttCount = 0 before the swap; an index out of range panics
\* after it. last keeps the batch, the counter the swap replaced, and whether
\* and with what ui.emitLatencyResults was called.
LatBatch(l, runs) ==
    /\ Running
    /\ lat[l].pc = "loop"
    /\ LET n == lat[l].rttCount
           t == lat[l].test
       IN  IF n = 0
           THEN /\ lat' = [lat EXCEPT ![l] = [@ EXCEPT !.pc = "panic"]]
                /\ UNCHANGED <<tests, last>>
           ELSE /\ tests' = SetTest(t, "data",
                                AtomicSwapUint64(tests[t].data, Outcomes[n][runs].mean))
                /\ last' = [by |-> l, batch |-> runs, before |-> tests[t].data,
                            emitted |-> Outcomes[n][runs].ok,
                            out |-> Outcomes[n][runs].out]
                /\ lat' = [lat EXCEPT ![l] = [@ EXCEPT
                             !.pc = IF Outcomes[n][runs].ok THEN "loop" ELSE "panic"]]
    /\ UNCHANGED <<registry, ctrl, socks, pps, cps, udp, bw, http>>

LatPlane(addrs) ==
    \/ \E a \in addrs : LatAccept(a)
    \/ \E l \in DOMAIN lat : LatIoError(l)
    \/ \E l \in DOMAIN lat : \E runs \in Batches(lat[l].rttCount) : LatBatch(l, runs)

\* ---------------------------------------------------------- specifications
Init ==
    /\ tests = <<>>
    /\ registry = {}
    /\ ctrl = [h \in Conns |-> IdleCtrl]
    /\ socks = <<>>
    /\ pps = <<>>
    /\ cps = <<>>
    /\ udp = [n |-> 0, from |-> Nil]
    /\ bw = <<>>
    /\ http = <<>>
    /\ lat = <<>>
    /\ last = NoBatch

SynMsg(p) == [type |-> EthrSyn, param |-> p]

\* Control plane with the rate tests (Cps, Pps): every connection's session,
\* the Pps setup and teardown included.
RateSyns == {SynMsg(TestParam(Tcp, Cps, 1, 1)), SynMsg(TestParam(Udp, Pps, 1, 1))}

Next == Control(Conns, {1}, RateSyns) \/ PpsSetup(Conns)

Spec == Init /\ [][Next]_vars

\* Two clients' rate tests with the Cps and Pps data planes; connections and
\* datagrams come from the clients' address and from a stranger's.
TwoConns == {1, 2}

Senders == {1, 2}

NextRate ==
    \/ Control(TwoConns, {1}, RateSyns)
    \/ PpsSetup(TwoConns)
    \/ PpsPlane(Senders)
    \/ CpsPlane(Senders)

SpecRate == Init /\ [][NextRate]_vars

\* Two clients at different addresses, each asking for a Pps test: the
\* control sessions with the Pps setup and teardown.
PpsClients == {1, 2}

PpsSyns == {SynMsg(TestParam(Udp, Pps, 1, 1))}

NextPps == Control(TwoConns, PpsClients, PpsSyns) \/ PpsSetup(TwoConns)

SpecPps == Init /\ [][NextPps]_vars

\* One client's Pps sessions with the datagrams it sends, and with the
\* scheduling the Go runtime gives the goroutines of the Pps data plane: the
\* owner of a socket whose Test's done is closed runs its deferred l.Close(),
\* a worker adds for the datagram it has read, and conn.ReadFromUDP returns
\* on a closed socket. Each of the two connections binds at most one socket.
SockIds == TwoConns

WorkerIds == 1..(Cardinality(SockIds) * NumCPU)

PpsOwnerRuns(s) == s \in DOMAIN socks /\ PpsOwnerExit(s)

PpsWorkerRuns(w) == w \in DOMAIN pps /\ (PpsAdd(w) \/ PpsRecvErr(w))

NextPpsData ==
    \/ Control(TwoConns, {1}, PpsSyns)
    \/ PpsSetup(TwoConns)
    \/ PpsPlane({1})

SpecPpsFair ==
    /\ Init /\ [][NextPpsData]_vars
    /\ \A s \in SockIds : WF_vars(PpsOwnerRuns(s))
    /\ \A w \in WorkerIds : WF_vars(PpsWorkerRuns(w))

\* Control plane with TCP bandwidth tests.
BwSyns == {SynMsg(TestParam(Tcp, Bandwidth, 1024, 1))}

NextBw == Session({1}, {1}, BwSyns) \/ BwPlane({1})

SpecBw == Init /\ [][NextBw]_vars

\* A short bandwidth session: the client sends MaxBufs buffers in all; a read
\* for more fails when the client closes the connection.
MaxBufs == 2

BwShortRead(b, ok) ==
    /\ ok => SumReads(Len(bw)) < MaxBufs
    /\ BwRead(b, ok)

NextBwShort ==
    \/ Session({1}, {1}, BwSyns)
    \/ BwAccept(1)
    \/ \E b \in DOMAIN bw : BwSelect(b)
    \/ \E b \in DOMAIN bw, ok \in BOOLEAN : BwShortRead(b, ok)

SpecBwShort == Init /\ [][NextBwShort]_vars

\* The same with the scheduling the Go runtime gives a bandwidth handler: a
\* handler at its select runs it, and the read it is in returns (with data
\* or with an error).
BwHandlerRuns(b) ==
    /\ b \in DOMAIN bw
    /\ BwSelect(b) \/ \E ok \in BOOLEAN : BwShortRead(b, ok)

SpecBwFair == SpecBwShort /\ \A b \in 1..MaxBw : WF_vars(BwHandlerRuns(b))

\* Control plane with HTTP bandwidth tests.
HttpSyns == {SynMsg(TestParam(Http, Bandwidth, 1024, 1))}

NextHttp == Session({1}, {1}, HttpSyns) \/ HttpPlane({1})

SpecHttp == Init /\ [][NextHttp]_vars

\* Control plane with TCP latency tests; nothing runs after a panic.
LatSyns == {SynMsg(TestParam(Tcp, Latency, 1, n)) : n \in RttCounts}

NextLat == Session({1}, {1}, LatSyns) \/ LatPlane({1})

SpecLat == Init /\ [][NextLat]_vars

\* Two sessions from one address, one after the other, asking for a Tcp
\* Bandwidth or a Tcp Latency test, with both data planes: the client connects
\* again with the same Syn once the teardown of its first Test has begun, so
\* the key is registered again while a data connection of the first Test may
\* still be open (the first session finds the registry empty and is never
\* rejected). The client sends MaxStale buffers of bandwidth data.
MaxStale == 2

StaleSyns ==
    {SynMsg(TestParam(Tcp, Bandwidth, 1024, 1)), SynMsg(TestParam(Tcp, Latency, 1, 1))}

FirstTornDown ==
    ctrl[1].test # Nil /\ ctrl[1].pc \in {"closeDone", "deleteTest", "returned"}

NextStale ==
    \/ Session({1}, {1}, StaleSyns)
    \/ FirstTornDown /\ Control({2}, {1}, {SynMsg(ctrl[1].param)})
    \/ BwAccept(1)
    \/ \E b \in DOMAIN bw : BwSelect(b)
    \/ \E b \in DOMAIN bw, ok \in BOOLEAN :
          SumReads(Len(bw)) < MaxStale /\ BwRead(b, ok)
    \/ LatPlane({1})

SpecStale == Init /\ [][NextStale]_vars

\* ------------------------------------------------------------------ claims
Seen(h, ev) == \E i \in DOMAIN ctrl[h].trace : ctrl[h].trace[i] = ev

Count(seq, x) == Cardinality({i \in DOMAIN seq : seq[i] = x})

Registered(a, proto, type) == \E t \in registry : KeyOf(t) = <<a, proto, type>>

\* The step is handler h's own duplicate rejection (newTest failed, or the
\* Fin is sent and handleRequest returns).
RejectionStep(h) ==
    \/ ctrl[h].pc = "newTest" /\ ctrl'[h].pc = "sendFin"
    \/ ctrl[h].pc = "sendFin" /\ ctrl'[h].pc = "returned"

\* C1: at most one Test is registered per (address, protocol, type) key; a
\* handler whose Syn hits a registered key sends exactly one Fin and no Ack,
\* creates no record, and its rejection steps leave every Test record, the
\* registry and every other control connection as they were.
C1_DuplicateRejected ==
    /\ [](\A t1, t2 \in registry : KeyOf(t1) = KeyOf(t2) => t1 = t2)
    /\ [](\A h \in Conns : Seen(h, "duplicate") =>
            /\ ctrl[h].test = Nil
            /\ \A t \in TestIds : tests[t].ctrlConn # h
            /\ Count(ctrl[h].sent, EthrAck) = 0
            /\ ctrl[h].pc \in {"sendFin", "returned"}
            /\ ctrl[h].sent = IF ctrl[h].pc = "returned" THEN <<EthrFin>> ELSE <<>>)
    /\ [][\A h \in Conns : RejectionStep(h) =>
            /\ ctrl[h].pc = "newTest" =>
                 Registered(ctrl[h].addr, ctrl[h].param.proto, ctrl[h].param.type)
            /\ tests' = tests
            /\ registry' = registry
            /\ \A g \in Conns \ {h} : ctrl'[g] = ctrl[g]]_vars

\* A duplicate was rejected with Fin while the first Test of the key is still
\* registered, active, not done, its control connection open.
C1_Witness ==
    \E h \in Conns, t \in registry :
        /\ Seen(h, "duplicate") /\ ctrl[h].pc = "returned"
        /\ ctrl[h].sent = <<EthrFin>>
        /\ KeyOf(t) = <<ctrl[h].addr, ctrl[h].param.proto, ctrl[h].param.type>>
        /\ tests[t].isActive /\ ~tests[t].done
        /\ ctrl[tests[t].ctrlConn].connOpen

\* C2: once handleRequest has returned, no Test it created is registered,
\* and every Test it created has done closed and its control connection
\* closed; its own connection is closed on every path.
C2_CleanupOnEveryExit ==
    \A h \in Conns : ctrl[h].pc = "returned" =>
        /\ ~ctrl[h].connOpen
        /\ \A t \in TestIds : tests[t].ctrlConn = h =>
              /\ t \notin registry
              /\ tests[t].done
              /\ ~ctrl[tests[t].ctrlConn].connOpen
              /\ ~tests[t].isActive

\* Both handlers have returned, one after a failed Pps setup, Ack send or
\* client reply, the other after a whole session.
C2_Witness ==
    \E h, g \in Conns :
        /\ ctrl[h].pc = "returned" /\ ctrl[h].test # Nil /\ ~Seen(h, "recvAck")
        /\ ctrl[g].pc = "returned" /\ ctrl[g].test # Nil /\ Seen(g, "recvAck")

\* The handshake events of handler h, without the Pps setup between
\* registration and Ack.
Handshake(h) == SelectSeq(ctrl[h].trace, LAMBDA ev : ev # "ppsSetup")

\* C3: a Test is active only when its handler received Syn, registered the
\* Test, sent exactly one Ack and then received exactly one message, an Ack,
\* in that order; no handler sends a second Ack; after any other reply the
\* Test is not active.
C3_ActiveOnlyAfterHandshake ==
    /\ \A t \in TestIds : tests[t].isActive =>
          LET h == tests[t].ctrlConn IN
            /\ Handshake(h) = <<"recvSyn", "registered", "sendAck", "recvAck">>
            /\ ctrl[h].sent = <<EthrAck>>
            /\ ctrl[h].nrecv = 2
            /\ ctrl[h].test = t
    /\ \A h \in Conns : Count(ctrl[h].sent, EthrAck) <= 1
    /\ \A h \in Conns : Seen(h, "recvOther") =>
          /\ ~tests[ctrl[h].test].isActive
          /\ ~Seen(h, "recvAck")

\* A Pps Test is active after its setup and the Syn, Ack, Ack exchange.
C3_Witness ==
    \E t \in registry :
        /\ tests[t].isActive /\ tests[t].type = Pps
        /\ Seen(tests[t].ctrlConn, "ppsSetup")

\* The step credits n to Test t's counter and changes no other field and no
\* other Test.
OnlyCredited(t, n) == tests' = [tests EXCEPT ![t].data = @ + n]

\* C5: a connection accepted on the Cps port, or a datagram received by a
\* Pps worker, is bound to the Test registered under the sender's key at
\* lookup time and adds exactly 1 to that Test's counter and to nothing
\* else; with no Test registered under the key no counter changes and the
\* worker stays in its loop; no other step changes a counter.
C5_RateCounters ==
    [][/\ \A i \in DOMAIN cps : cps[i].pc = "add" /\ cps'[i].pc = "closed" =>
            OnlyCredited(cps[i].target, 1)
       /\ Len(cps') > Len(cps) =>
            LET c == cps'[Len(cps')] IN
              /\ tests' = tests
              /\ IF Registered(c.addr, Tcp, Cps)
                 THEN /\ c.target \in registry /\ c.pc = "add"
                      /\ KeyOf(c.target) = <<c.addr, Tcp, Cps>>
                 ELSE c.target = Nil /\ c.pc = "closed"
       /\ \A w \in DOMAIN pps : pps[w].pc = "add" /\ pps'[w].pc = "recv" =>
            OnlyCredited(pps[w].target, 1)
       /\ udp'.n > udp.n =>
            /\ tests' = tests
            /\ IF Registered(udp'.from, Udp, Pps)
               THEN \E w \in DOMAIN pps :
                      /\ pps[w].pc = "recv" /\ pps'[w].pc = "add"
                      /\ pps'[w].target \in registry
                      /\ KeyOf(pps'[w].target) = <<udp'.from, Udp, Pps>>
                      /\ \A v \in DOMAIN pps \ {w} : pps'[v] = pps[v]
               ELSE pps' = pps
       /\ \A t \in TestIds : tests'[t].data # tests[t].data =>
            \/ \E i \in DOMAIN cps : cps[i].pc = "add" /\ cps'[i].pc = "closed"
                                      /\ cps[i].target = t
            \/ \E w \in DOMAIN pps : pps[w].pc = "add" /\ pps'[w].pc = "recv"
                                      /\ pps[w].target = t
      ]_vars

\* A Cps Test and a Pps Test were each credited once, by a connection and by
\* a datagram from their client.
C5_Witness ==
    /\ \E t \in TestIds : tests[t].type = Cps /\ tests[t].data = 1
    /\ \E t \in TestIds : tests[t].type = Pps /\ tests[t].data = 1
    /\ \A i \in DOMAIN cps : cps[i].pc = "closed"
    /\ \A w \in DOMAIN pps : pps[w].pc # "add"

\* An unsolicited datagram and an unsolicited Cps connection were dropped and
\* no counter moved.
C5_WitnessUnsolicited ==
    /\ udp.n > 0 /\ \A w \in DOMAIN pps : pps[w].pc # "add"
    /\ \E i \in DOMAIN cps : cps[i].pc = "closed"
    /\ \A t \in TestIds : tests[t].data = 0

\* The bandwidth connections bound to Test t.
BwOf(t) == {b \in DOMAIN bw : bw[b].test = t}

RECURSIVE ReadsOf(_)
ReadsOf(B) == IF B = {} THEN 0
              ELSE LET b == CHOOSE x \in B : TRUE IN bw[b].reads + ReadsOf(B \ {b})

TcpBandwidth(t) == tests[t].proto = Tcp /\ tests[t].type = Bandwidth

\* C4: the counter of a Tcp Bandwidth Test never decreases; it changes only
\* in a step in which one bandwidth connection bound to it completes a full
\* read, and then by exactly bufferSize; every completed full read is such a
\* step; with one connection the counter is bufferSize times its completed
\* reads (10 reads of 1024 bytes: 10240).
C4_BandwidthCounter ==
    /\ [][\A t \in TestIds : TcpBandwidth(t) =>
            /\ tests'[t].data >= tests[t].data
            /\ tests'[t].data # tests[t].data =>
                 /\ tests'[t].data = tests[t].data + tests[t].bufferSize
                 /\ \E b \in BwOf(t) : /\ bw[b].pc = "read"
                                        /\ bw'[b].reads = bw[b].reads + 1
                                        /\ \A c \in DOMAIN bw \ {b} : bw'[c] = bw[c]]_vars
    /\ [][\A b \in DOMAIN bw : bw'[b].reads # bw[b].reads =>
            /\ bw'[b].reads = bw[b].reads + 1
            /\ OnlyCredited(bw[b].test, tests[bw[b].test].bufferSize)]_vars
    /\ [](\A t \in TestIds : TcpBandwidth(t) /\ Cardinality(BwOf(t)) = 1 =>
            \A b \in BwOf(t) : tests[t].data = tests[t].bufferSize * bw[b].reads)

\* After the handshake, one connection completed 10 reads of 1024 bytes.
C4_Witness ==
    \E t \in registry :
        /\ TcpBandwidth(t) /\ tests[t].isActive /\ tests[t].bufferSize = 1024
        /\ Cardinality(BwOf(t)) = 1
        /\ \A b \in BwOf(t) : bw[b].reads = 10
        /\ tests[t].data = 10240

\* C6: no credit is lost: with any number of bandwidth connections bound to
\* one Test and their reads interleaved in any order, the Test's counter is
\* the sum of all the credits, bufferSize for every completed read of every
\* connection.
C6_NoLostUpdate ==
    \A t \in TestIds : TcpBandwidth(t) =>
        tests[t].data = tests[t].bufferSize * ReadsOf(BwOf(t))

\* Two connections of one Test are both in a read, each has credited before.
C6_Witness ==
    \E t \in TestIds : \E b, c \in BwOf(t) :
        /\ b # c
        /\ bw[b].pc = "read" /\ bw[c].pc = "read"
        /\ bw[b].reads >= 1 /\ bw[c].reads >= 1
        /\ tests[t].data = tests[t].bufferSize * (bw[b].reads + bw[c].reads)

RequestDone(i) == http[i].pc = "add" /\ http'[i].pc = "done"

\* C10 as stated: every GET, PUT or POST from an address with a registered
\* (addr, Http, Bandwidth) Test is answered 200 and bound to that Test, to
\* credit a positive Content-Length; every other method is answered 405.
C10_AsStated ==
    \A i \in DOMAIN http :
        IF http[i].method \in {"GET", "PUT", "POST"}
        THEN http[i].registered =>
               /\ http[i].w.status = StatusOK
               /\ http[i].target # Nil
        ELSE http[i].w.status = StatusMethodNotAllowed /\ http[i].target = Nil

\* C10, amended: for a request whose body was read without error: a GET, PUT
\* or POST from an address with a registered (addr, Http, Bandwidth) Test is
\* answered 200, and adds exactly its Content-Length to that Test's counter
\* and to nothing else when the length is positive, and nothing when it is 0
\* or negative; any other method is answered 405 and changes no counter. A
\* request whose body cannot be read is answered 400 and changes no counter.
C10_HttpCredit ==
    /\ [](\A i \in DOMAIN http :
            IF ~http[i].bodyOk
            THEN /\ http[i].w.status = StatusBadRequest
                 /\ http[i].target = Nil /\ http[i].pc = "done"
            ELSE IF http[i].method \in {"GET", "PUT", "POST"}
            THEN http[i].registered =>
                   /\ http[i].w.status = StatusOK
                   /\ http[i].target # Nil
                   /\ KeyOf(http[i].target) = <<http[i].addr, Http, Bandwidth>>
                   /\ http[i].contentLength <= 0 => http[i].pc = "done"
            ELSE /\ http[i].w.status = StatusMethodNotAllowed
                 /\ http[i].target = Nil /\ http[i].pc = "done")
    /\ [][/\ \A i \in DOMAIN http : RequestDone(i) =>
              /\ http[i].contentLength > 0
              /\ OnlyCredited(http[i].target, http[i].contentLength)
         /\ Len(http') > Len(http) =>
              /\ tests' = tests
              /\ LET r == http'[Len(http')] IN
                   r.pc = "add" <=> /\ r.bodyOk /\ r.registered /\ r.contentLength > 0
                                    /\ r.method \in {"GET", "PUT", "POST"}
         /\ \A t \in TestIds : tests'[t].data # tests[t].data =>
              \E i \in DOMAIN http : RequestDone(i) /\ http[i].target = t]_vars

\* A POST with Content-Length 500 was answered 200 and credited 500; a DELETE
\* from the same registered address was answered 405.
C10_Witness ==
    \E i, j \in DOMAIN http :
        /\ http[i].method = "POST" /\ http[i].contentLength = 500
        /\ http[i].bodyOk /\ http[i].pc = "done" /\ http[i].target # Nil
        /\ http[i].w.status = StatusOK
        /\ tests[http[i].target].data = 500
        /\ http[j].method = "DELETE" /\ http[j].registered /\ http[j].bodyOk
        /\ http[j].w.status = StatusMethodNotAllowed

\* m is the sum of the batch's durations divided by their number, truncated.
IsTruncatedMean(m, runs) ==
    /\ m * Count32(runs) <= Sum(runs)
    /\ Sum(runs) < (m + 1) * Count32(runs)

\* The Test of the handler that completed the last batch.
LastTest == lat[last.by].test

\* C7: every completed batch of rttCount >= 1 samples replaces the Test's
\* counter by the truncated mean of that batch, whatever the counter held,
\* and changes nothing else; no other step changes the counter; so the
\* counter holds the truncated mean of the batch completed last.
C7_LatencyMean ==
    /\ [][last' # last =>
            LET l == last'.by
                t == lat[l].test
            IN  /\ lat[l].pc = "loop"
                /\ Count32(last'.batch) = lat[l].rttCount
                /\ IsTruncatedMean(tests'[t].data, last'.batch)
                /\ tests' = [tests EXCEPT ![t].data = tests'[t].data]
                /\ last'.before = tests[t].data]_vars
    /\ [][\A t \in TestIds : tests'[t].data # tests[t].data => last' # last]_vars
    /\ [](last.batch # <<>> => IsTruncatedMean(tests[LastTest].data, last.batch))

\* The counter held 2 and a batch of two samples, 1 ns and 2 ns, set it to 1.
C7_Witness ==
    /\ last.batch = <<[val |-> 1, cnt |-> 1], [val |-> 2, cnt |-> 1]>>
    /\ last.before = 2
    /\ lat[last.by].rttCount = 2
    /\ tests[LastTest].data = 1

\* C8 as stated: the values emitted for a batch are ordered
\* min <= p50 <= p90 <= p95 <= p99 <= p99.9 <= p99.99 <= max.
C8_PercentilesOrdered ==
    last.emitted =>
        LET o == last.out IN
          /\ o.min <= o.p50 /\ o.p50 <= o.p90 /\ o.p90 <= o.p95
          /\ o.p95 <= o.p99 /\ o.p99 <= o.p999 /\ o.p999 <= o.p9999
          /\ o.p9999 <= o.max

\* C9: for rttCount = 1 every index the handler uses is 0, no batch panics,
\* and min, max and the six percentiles it emits are the one sample.
C9_SingleSample ==
    /\ \A k \in 1..8 : Indices(1)[k] = U32(0)
    /\ \A l \in DOMAIN lat : lat[l].rttCount = 1 => lat[l].pc # "panic"
    /\ last.batch # <<>> /\ lat[last.by].rttCount = 1 =>
          /\ last.emitted
          /\ \A f \in {"min", "max", "p50", "p90", "p95", "p99", "p999", "p9999"} :
                last.out[f] = last.batch[1].val

\* A batch of one sample of 2 ns was emitted.
C9_Witness ==
    /\ last.batch = <<[val |-> 2, cnt |-> 1]>>
    /\ lat[last.by].rttCount = 1 /\ lat[last.by].pc = "loop"
    /\ last.emitted /\ last.out.p50 = 2 /\ last.out.p9999 = 2

\* A GET, PUT or POST whose body was read and whose sender had no registered
\* (addr, Http, Bandwidth) Test when it was served.
Unmatched(r) == r.bodyOk /\ r.method \in {"GET", "PUT", "POST"} /\ ~r.registered

\* C11 as stated (read for requests whose body was read): a GET, PUT or POST
\* from an address without a registered Test is answered with status 401.
C11_AsStated ==
    \A i \in DOMAIN http : Unmatched(http[i]) => http[i].w.status = StatusUnauthorized

\* C11, amended: a GET, PUT or POST whose body was read and whose address
\* has no registered (addr, Http, Bandwidth) Test is answered with status 200,
\* sent with the body "ok" before the lookup; the 401 of http.Error comes
\* after the status line and only appends its message to the body; the
\* request is bound to no Test and no counter changes, then or later.
C11_UnmatchedGets200 ==
    /\ [](\A i \in DOMAIN http : Unmatched(http[i]) =>
            /\ http[i].w.status = StatusOK
            /\ http[i].w.body = <<"ok", "Unauthorized request.">>
            /\ http[i].target = Nil /\ http[i].pc = "done")
    /\ [][/\ Len(http') > Len(http) /\ Unmatched(http'[Len(http')]) => tests' = tests
         /\ \A i \in DOMAIN http : RequestDone(i) => http[i].registered]_vars

\* A POST with Content-Length 500 was served after its sender's Test was
\* torn down: status 200, the counter of that Test still 0.
C11_Witness ==
    \E i \in DOMAIN http, t \in TestIds :
        /\ http[i].method = "POST" /\ http[i].contentLength = 500
        /\ Unmatched(http[i])
        /\ http[i].w.status = StatusOK
        /\ t \notin registry /\ KeyOf(t) = <<http[i].addr, Http, Bandwidth>>
        /\ tests[t].data = 0

\* The integer percentiles the handler reports and the fields it reports
\* them in.
Percentiles == {50, 90, 95, 99}

PField(p) == CASE p = 50 -> "p50" [] p = 90 -> "p90" [] p = 95 -> "p95" [] p = 99 -> "p99"

\* rttCountEff of the spec: 2 for rttCount = 1
RttCountEff(n) == IF n = 1 THEN 2 ELSE n

\* ceil(rttCountEff * p / 100) - 1, the index the spec names
CeilIndex(n, p) ==
    (RttCountEff(n) \div 100) * p + ((RttCountEff(n) % 100) * p + 99) \div 100 - 1

\* floor(rttCountEff * p / 100) - 1
FloorIndex(n, p) ==
    (RttCountEff(n) \div 100) * p + ((RttCountEff(n) % 100) * p) \div 100 - 1

\* rttCountEff * p < 2^32: the 32-bit product is the product
NoWrap(n, p) ==
    (RttCountEff(n) \div Limb) * p + ((RttCountEff(n) % Limb) * p) \div Limb < Limb

\* The sorted batch completed last and the rttCount of its handler.
LastSorted == SliceStable(last.batch)

LastCount == lat[last.by].rttCount

\* C12 as stated: every reported p50, p90, p95, p99 is the element of the
\* sorted batch at index ceil(rttCountEff * p / 100) - 1.
C12_CeilIndex ==
    last.emitted =>
        \A p \in Percentiles :
            /\ CeilIndex(LastCount, p) < LastCount
            /\ last.out[PField(p)] = At(LastSorted, CeilIndex(LastCount, p))

\* C12, amended: every reported p50, p90, p95, p99 is the element of the
\* sorted batch at index ((rttCountEff * p) mod 2^32) div 100 - 1, the
\* quotient rounded down; that is floor(rttCountEff * p / 100) - 1 whenever
\* rttCountEff * p < 2^32.
C12_FloorIndex ==
    last.emitted =>
        \A p \in Percentiles :
            LET wrapped == U32Int(U32Dec(U32Div(U32Mul(U32(RttCountEff(LastCount)), p), 100)))
                idx == IF NoWrap(LastCount, p) THEN FloorIndex(LastCount, p) ELSE wrapped
            IN  /\ 0 <= idx /\ idx < LastCount
                /\ NoWrap(LastCount, p) => wrapped = FloorIndex(LastCount, p)
                /\ last.out[PField(p)] = At(LastSorted, idx)

\* Three samples 2, 1, 2 ns: p50 is read at index 0 (1 ns), p90 at index 1
\* (2 ns); rounding up would read p50 at index 1.
C12_Witness ==
    /\ last.emitted
    /\ last.batch = <<[val |-> 2, cnt |-> 1], [val |-> 1, cnt |-> 1], [val |-> 2, cnt |-> 1]>>
    /\ last.out.p50 = 1 /\ last.out.p90 = 2
    /\ CeilIndex(3, 50) = 1 /\ FloorIndex(3, 50) = 0

\* C13 as stated: a failed full read ends the loop of runBandwidthHandler:
\* the handler attempts no further read on that connection, and from the
\* failed read it goes on to close the connection whether or not done fired.
C13_ReadErrorEndsLoop ==
    [][\A b \in DOMAIN bw :
          /\ bw[b].failed => bw'[b].pc # "read"
          /\ bw[b].pc = "read" /\ bw'[b].failed => bw'[b].pc = "closed"]_vars

\* Handler b was started for a Test whose done is closed.
DoneClosed(b) == bw[b].test # Nil /\ tests[bw[b].test].done

\* C14: once a Test's done is closed it stays closed, and every bandwidth
\* handler started for the Test eventually leaves its loop and closes its
\* connection; from then on the handler starts no read: its only steps are
\* the return of the read it was in, which credits at most once, and the
\* exit from the select.
C14_NoHandlerOutlivesTest ==
    /\ \A b \in 1..MaxBw :
          (b \in DOMAIN bw /\ DoneClosed(b)) ~> (b \in DOMAIN bw /\ bw[b].pc = "closed")
    /\ [][\A t \in TestIds : tests[t].done => tests'[t].done]_vars
    /\ [][\A b \in DOMAIN bw : DoneClosed(b) /\ bw'[b] # bw[b] =>
            \/ /\ bw[b].pc = "read" /\ bw'[b].pc = "select"
               /\ bw'[b].reads \in {bw[b].reads, bw[b].reads + 1}
            \/ /\ bw[b].pc = "select" /\ bw'[b].pc = "closed"
               /\ bw'[b].reads = bw[b].reads /\ tests' = tests]_vars

\* done is closed while one handler of the Test is in a read and another
\* has left its loop after a credited read.
C14_Witness ==
    \E b, c \in DOMAIN bw :
        /\ DoneClosed(b) /\ bw[b].pc = "read"
        /\ bw[c].test = bw[b].test /\ bw[c].pc = "closed" /\ bw[c].reads >= 1

\* The Test socket s was bound for, and the Test of worker w's socket.
SockTest(s) == socks[s].test

WorkerTest(w) == socks[pps[w].sock].test

\* C15: after done of a Pps Test is closed, the socket bound for it is
\* eventually closed and every worker spawned on it eventually terminates,
\* a worker blocked in a receive with no datagram arriving included.
C15_PpsWorkersExit ==
    /\ \A s \in SockIds :
          (s \in DOMAIN socks /\ tests[SockTest(s)].done)
             ~> (s \in DOMAIN socks /\ ~socks[s].open)
    /\ \A w \in WorkerIds :
          (w \in DOMAIN pps /\ tests[WorkerTest(w)].done)
             ~> (w \in DOMAIN pps /\ pps[w].pc = "exit")

\* No datagram ever arrived; done of the Pps Test is closed, its socket is
\* closed and its NumCPU workers have all terminated.
C15_Witness ==
    /\ udp.n = 0
    /\ \E s \in DOMAIN socks :
          /\ tests[SockTest(s)].done /\ ~socks[s].open
          /\ Cardinality({w \in DOMAIN pps : pps[w].sock = s /\ pps[w].pc = "exit"}) = NumCPU

\* The position of event ev in the trace of handler h.
Pos(h, ev) == CHOOSE i \in DOMAIN ctrl[h].trace : ctrl[h].trace[i] = ev

\* The sockets bound for the Test of handler h, and the workers on them.
SocksOf(h) == {s \in DOMAIN socks : socks[s].test = ctrl[h].test}

WorkersOn(S) == {w \in DOMAIN pps : pps[w].sock \in S}

\* Handler h registered a Pps Test and runServerPpsTest returned an error.
SetupFailed(h) ==
    /\ ctrl[h].param.type = Pps
    /\ Seen(h, "registered")
    /\ ctrl[h].pc # "pps"
    /\ ~Seen(h, "ppsSetup")

C16_WitnessFailed ==
    \E h \in Conns :
       /\ SetupFailed(h) /\ ctrl[h].pc = "returned"
       /\ tests[ctrl[h].test].done /\ ctrl[h].test \notin registry
       /\ ctrl[h].sent = <<>>

C16_WitnessOther ==
    \E h \in Conns :
       /\ Seen(h, "registered") /\ ctrl[h].param.type # Pps /\ Seen(h, "sendAck")

\* Handler h has registered its Test and a Test for another key is registered.
OtherKeyRegistered(h) ==
    \E t \in registry : KeyOf(t) # KeyOf(ctrl[h].test)

\* The Pps setup of handler h can succeed, after which the Ack is sent.
SetupCanSucceed(h) ==
    ENABLED (runServerPpsTest(h, TRUE) /\ ctrl'[h].pc = "sendAck")

\* C17: a Test registered for a key K1 never prevents the handshake of a
\* Test for another key K2 from going on to the Ack and the Active state:
\* when a handler is about to set up its Pps Test while a Test for another
\* key is registered, the setup can succeed.
C17_KeysIndependent ==
    \A h \in TwoConns :
       (ctrl[h].pc = "pps" /\ OtherKeyRegistered(h)) => SetupCanSucceed(h)

\* Handler h executes close(test.done) in this step.
ClosesDone(h) == ctrl[h].pc = "closeDone" /\ ctrl'[h].pc = "deleteTest"

\* C18: the teardown runs once per registered Test: close(test.done) is
\* executed only on a done that is not closed yet (a second close would
\* panic) and has been executed when the handler has returned; done is
\* closed before the record is deleted, so every Test removed from the
\* registry has done closed; nothing but the teardown of its own handler
\* closes a Test's done and nothing reopens it.
C18_TeardownOnce ==
    /\ [](\A t \in TestIds : t \notin registry => tests[t].done)
    /\ [](\A h \in Conns : ctrl[h].test # Nil =>
            /\ ctrl[h].pc = "returned" =>
                  tests[ctrl[h].test].done /\ ctrl[h].test \notin registry
            /\ ctrl[h].pc = "closeDone" =>
                  ~tests[ctrl[h].test].done /\ ctrl[h].test \in registry
            /\ ctrl[h].pc = "deleteTest" =>
                  tests[ctrl[h].test].done /\ ctrl[h].test \in registry
            /\ tests[ctrl[h].test].done =>
                  ctrl[h].pc \in {"deleteTest", "returned"})
    /\ [][/\ \A h \in Conns : ClosesDone(h) =>
               /\ ~tests[ctrl[h].test].done
               /\ tests'[ctrl[h].test].done
               /\ registry' = registry
          /\ \A t \in TestIds :
               /\ tests[t].done => tests'[t].done
               /\ (~tests[t].done /\ tests'[t].done) =>
                    \E h \in Conns : ctrl[h].test = t /\ ClosesDone(h)
               /\ (t \in registry /\ t \notin registry') =>
                    /\ tests[t].done
                    /\ ctrl[tests[t].ctrlConn].pc = "deleteTest"
                    /\ ctrl'[tests[t].ctrlConn].pc = "returned"]_vars

\* One Test was torn down after a whole session and is removed with done
\* closed; another Test, torn down in the handshake, has done closed and is
\* about to be deleted.
C18_Witness ==
    \E h, g \in Conns :
       /\ ctrl[h].pc = "returned" /\ ctrl[h].test # Nil /\ Seen(h, "recvAck")
       /\ tests[ctrl[h].test].done /\ ctrl[h].test \notin registry
       /\ ctrl[g].pc = "deleteTest" /\ ~Seen(g, "recvAck")
       /\ tests[ctrl[g].test].done /\ ctrl[g].test \in registry

\* C19: whatever rttCount the Syn carried, 0 included, no batch computation
\* of a latency handler divides by zero or uses an index outside
\* [0, rttCount-1]: no latency handler panics.
C19_NoPanicForAnyRttCount ==
    \A l \in DOMAIN lat : lat[l].rttCount \in RttCounts => lat[l].pc # "panic"

\* Test t was removed from the registry and another Test is registered under
\* its key.
Replaced(t) ==
    /\ t \notin registry
    /\ \E u \in registry : u # t /\ KeyOf(u) = KeyOf(t)

\* Bandwidth handler b completes a full read in this step.
BwCredits(b) == bw[b].pc = "read" /\ bw'[b].reads = bw[b].reads + 1

\* C20: a bandwidth or latency handler keeps the Test record it was bound to
\* at accept time; a completed read or batch changes the counter of that
\* record and of no other, also when the record was torn down and another
\* Test is registered under its key; a counter changes only by such a step.
C20_CreditsGoToBoundRecord ==
    [][/\ \A b \in DOMAIN bw : bw'[b].test = bw[b].test
       /\ \A l \in DOMAIN lat : lat'[l].test = lat[l].test
       /\ \A b \in DOMAIN bw : BwCredits(b) =>
             tests' = [tests EXCEPT ![bw[b].test].data = @ + tests[bw[b].test].bufferSize]
       /\ last' # last =>
             tests' = [tests EXCEPT ![lat[last'.by].test].data = tests'[lat[last'.by].test].data]
       /\ \A t \in TestIds : tests'[t].data # tests[t].data =>
             \/ \E b \in DOMAIN bw : bw[b].test = t /\ BwCredits(b)
             \/ last' # last /\ lat[last'.by].test = t]_vars

\* A bandwidth Test was torn down and its key registered again; the handler
\* bound to the first record has credited its read to that record and left
\* its loop, the counter of the new record is 0.
C20_Witness ==
    \E b \in DOMAIN bw :
       /\ bw[b].test # Nil
       /\ Replaced(bw[b].test)
       /\ bw[b].reads = 1 /\ bw[b].pc = "closed"
       /\ tests[bw[b].test].data = tests[bw[b].test].bufferSize
       /\ \A u \in registry : tests[u].data = 0

\* A latency batch set the counter of a record that had been torn down and
\* replaced; the counter of the new record is 0.
C20_WitnessLatency ==
    /\ last.batch # <<>>
    /\ Replaced(LastTest)
    /\ tests[LastTest].data = last.batch[1].val
    /\ \A u \in registry : tests[u].data = 0

\* A bandwidth counter was credited although its Test never became active.
C20_WitnessNotActive ==
    \E b \in DOMAIN bw :
       /\ bw[b].test # Nil
       /\ bw[b].reads = 1
       /\ tests[bw[b].test].data = tests[bw[b].test].bufferSize
       /\ ~Seen(tests[bw[b].test].ctrlConn, "recvAck")

\* "No step credits a record that was replaced under its key": this does not
\* hold of SpecStale, the stale credit does happen.
C20_NoStaleCredit ==
    [][\A t \in TestIds : Replaced(t) => tests'[t].data = tests[t].data]_vars

====
